---- MODULE Spec2Model ----
(***************************************************************************)
(* khal/controllers.py: the range pipeline (khal_list, get_list_from_str,  *)
(* get_list) and the day-window pipeline (agenda, get_agenda).             *)
(*                                                                         *)
(* Time is counted in ticks; a calendar day has TicksPerDay ticks and the  *)
(* instant t lies on the day t \div TicksPerDay.  Zone-aware instants are  *)
(* written on the scale of the local zone, so that a zone-aware datetime   *)
(* of the local zone and its zone-naive form are the same number.          *)
(***************************************************************************)
EXTENDS Integers, Sequences, FiniteSets

TicksPerDay == 2
MaxDay == 2
MaxEvents == 2
MaxWords == 2
MaxAnchors == 2

\* get_agenda: the default of days, and the days of a week
DefaultDays == 2
WeekDays == 7

Date(t) == t \div TicksPerDay
MaxTime == MaxDay * TicksPerDay

\* aux.datetime_fillin for a bare date: the start of the day (end=False) or
\* the end of the day (end=True), which the specification takes to be the
\* start of the next day
datetime_fillin(day, end) ==
    IF end THEN (day + 1) * TicksPerDay ELSE day * TicksPerDay

(***************************************************************************)
(* Events.  start and end are the instants of the event on the local       *)
(* scale; tz is the offset of the zone the event's own start is written in *)
(* (0 for a floating event); keyerr says that event.format raises KeyError *)
(* for the event; words is the number of words of its rendered text, one   *)
(* for a short event and MaxWords for a long one.  The uid is the          *)
(* secondary key of the canonical order.  A short event lasts one tick, a  *)
(* long one a day and a tick.                                              *)
(***************************************************************************)
TzOffsets == {-1, 0, 1}

\* an event starts at the first midnight, at the last tick before the second
\* midnight or at the second midnight
EventStarts == {0, TicksPerDay - 1, TicksPerDay}

Uid(zoned, start, long, tz, keyerr) ==
    1 + (IF keyerr THEN 1 ELSE 0)
      + 2 * ((IF zoned THEN 0 ELSE 1)
      + 2 * ((tz + 1)
      + 3 * ((IF long THEN 0 ELSE 1)
      + 2 * (TicksPerDay - start))))

EventPool ==
    { [uid |-> Uid(zoned, start, long, tz, keyerr), zoned |-> zoned,
       start |-> start,
       end |-> IF long THEN start + TicksPerDay + 1 ELSE start + 1,
       tz |-> tz, keyerr |-> keyerr,
       words |-> IF long THEN MaxWords ELSE 1] :
        <<zoned, start, long, tz, keyerr>> \in
            { x \in BOOLEAN \X EventStarts \X BOOLEAN \X TzOffsets \X BOOLEAN :
                /\ (x[4] # 0 => x[1])
                /\ (x[1] => (x[3] <=> x[4] > 0))
                /\ (x[5] => ~x[1] /\ ~x[3]) } }

\* the collections: at most MaxEvents events, stored in the order of their uids
RECURSIVE SubsetsUpTo(_, _)
SubsetsUpTo(S, n) ==
    IF n = 0 THEN {{}}
    ELSE LET smaller == SubsetsUpTo(S, n - 1) IN
         smaller \cup { c \cup {e} : c \in smaller, e \in S }

RECURSIVE Stored(_)
Stored(S) ==
    IF S = {} THEN <<>>
    ELSE LET e == CHOOSE x \in S : \A y \in S : x.uid <= y.uid
         IN <<e>> \o Stored(S \ {e})

Collections == { Stored(c) : c \in SubsetsUpTo(EventPool, MaxEvents) }

\* event.start as the code reads it: the wall clock of the event's own zone
EventStart(e) == e.start + e.tz

\* the events of a query overlap the half-open interval [s, e)
Overlaps(ev, s, e) == ev.start < e /\ ev.end > s

get_localized(coll, s, e) ==
    SelectSeq(coll, LAMBDA ev : ev.zoned /\ Overlaps(ev, s, e))

get_floating(coll, s, e) ==
    SelectSeq(coll, LAMBDA ev : ~ev.zoned /\ Overlaps(ev, s, e))

\* Event.__lt__, the canonical event order: start time, then the uid
Less(a, b) ==
    \/ a.start < b.start
    \/ (a.start = b.start /\ a.uid < b.uid)

\* sorted(): a stable sort that only uses <
RECURSIVE Insert(_, _)
Insert(x, s) ==
    IF s = <<>> THEN <<x>>
    ELSE IF Less(x, Head(s)) THEN <<x>> \o s
    ELSE <<Head(s)>> \o Insert(x, Tail(s))

RECURSIVE SortFrom(_, _)
SortFrom(s, acc) ==
    IF s = <<>> THEN acc ELSE SortFrom(Tail(s), Insert(Head(s), acc))

sorted(s) == SortFrom(s, <<>>)

\* textwrap.wrap(text, width): the lines of a text of `words` words, for a
\* width counted in words; a text without words has no line
WrapCount(words, width) == (words + width - 1) \div width

\* a line of the result: a rendered line of an event, a day header, the blank
\* separator or the placeholder
Line(kind, uid, part, day, name) ==
    [kind |-> kind, uid |-> uid, part |-> part, day |-> day, name |-> name]

EventLine(e, k) == Line("event", e.uid, k, 0, "")

EventLines(e, n) == [k \in 1..n |-> EventLine(e, k)]

\* line 286 with <= for <: an event that starts at start is left out too
Started_OrAtStart(event, start, notstarted) ==
    notstarted /\ EventStart(event) <= start

\* get_list, line 286: the events that notstarted leaves out
Started(event, start, notstarted) ==
    notstarted /\ EventStart(event) < start

\* the loop of get_list with an event whose format fails skipped
RECURSIVE RenderFrom_SkipFailed(_, _, _, _, _)
RenderFrom_SkipFailed(events, start, notstarted, width, acc) ==
    IF events = <<>> THEN acc
    ELSE LET event == Head(events) IN
         IF Started(event, start, notstarted) \/ event.keyerr
         THEN RenderFrom_SkipFailed(Tail(events), start, notstarted, width, acc)
         ELSE RenderFrom_SkipFailed(Tail(events), start, notstarted, width,
                  [acc EXCEPT
                     !.shown = Append(@, event.uid),
                     !.lines = @ \o (IF width # 0
                                     THEN EventLines(event, WrapCount(event.words, width))
                                     ELSE <<EventLine(event, 1)>>)])

\* get_list, lines 284-296, the loop over the merged events: an event that
\* the notstarted filter keeps is formatted; a KeyError ends the process
RECURSIVE RenderFrom(_, _, _, _, _)
RenderFrom(events, start, notstarted, width, acc) ==
    IF events = <<>> THEN acc
    ELSE LET event == Head(events) IN
         IF Started(event, start, notstarted)
         THEN RenderFrom(Tail(events), start, notstarted, width, acc)
         ELSE IF event.keyerr
         THEN [acc EXCEPT !.ok = FALSE]
         ELSE RenderFrom(Tail(events), start, notstarted, width,
                  [acc EXCEPT
                     !.shown = Append(@, event.uid),
                     !.lines = @ \o (IF width # 0
                                     THEN EventLines(event, WrapCount(event.words, width))
                                     ELSE <<EventLine(event, 1)>>)])

\* lines 281-283 without the sort of the concatenation
MergedEvents_NoResort(coll, start, end) ==
    sorted(get_localized(coll, start, end)) \o sorted(get_floating(coll, start, end))

\* get_list, lines 281-283: the two queries, each sorted, then the
\* concatenation sorted
MergedEvents(coll, start, end) ==
    sorted(sorted(get_localized(coll, start, end))
           \o sorted(get_floating(coll, start, end)))

\* get_list: the merged events, the uids of the events it formatted, its
\* lines, and whether it returned (ok) or ended the process
get_list(coll, start, end, notstarted, width) ==
    LET events == MergedEvents(coll, start, end)
        out == RenderFrom(events, start, notstarted, width,
                          [shown |-> <<>>, lines |-> <<>>, ok |-> TRUE])
    IN [events |-> events, shown |-> out.shown, lines |-> out.lines, ok |-> out.ok]

\* a value of S, or None
Option(S) == {<<>>} \cup { <<x>> : x \in S }

(***************************************************************************)
(* The day-window pipeline: get_agenda.                                    *)
(***************************************************************************)
\* date.weekday(): Monday is 0; day 0 of the model is a Monday
Weekday(d) == d % 7

\* lines 99-101 going forward to the next first day of a week
WeekStart_Forward(d, firstweekday) == d + ((firstweekday - Weekday(d)) % 7)

\* get_agenda, lines 99-101: an anchor goes back to the first day of its week
WeekStart(d, firstweekday) == d - ((Weekday(d) - firstweekday) % 7)

SnapDates(ds, firstweekday) ==
    [i \in 1..Len(ds) |-> WeekStart(ds[i], firstweekday)]

\* list.sort() of dates
RECURSIVE InsertDay(_, _)
InsertDay(x, s) ==
    IF s = <<>> THEN <<x>>
    ELSE IF x < Head(s) THEN <<x>> \o s
    ELSE <<Head(s)>> \o InsertDay(x, Tail(s))

RECURSIVE SortDaysFrom(_, _)
SortDaysFrom(s, acc) ==
    IF s = <<>> THEN acc ELSE SortDaysFrom(Tail(s), InsertDay(Head(s), acc))

\* get_agenda, lines 105-107: for one in range(days) for day in dates, sorted
RECURSIVE DaysFrom(_, _, _)
DaysFrom(ds, n, one) ==
    IF one >= n THEN <<>>
    ELSE [i \in 1..Len(ds) |-> ds[i] + one] \o DaysFrom(ds, n, one + 1)

RECURSIVE WithoutRepeats(_)
WithoutRepeats(s) ==
    IF Len(s) < 2 THEN s
    ELSE IF s[1] = s[2] THEN WithoutRepeats(Tail(s))
    ELSE <<s[1]>> \o WithoutRepeats(Tail(s))

\* lines 105-107 with the repeated days removed
DayList_Dedup(ds, n) == WithoutRepeats(SortDaysFrom(DaysFrom(ds, n, 0), <<>>))

\* get_agenda, lines 104-107: the day list
DayList(ds, n) == SortDaysFrom(DaysFrom(ds, n, 0), <<>>)

\* construct_daynames
DayName(day, today) ==
    IF day = today THEN "Today:"
    ELSE IF day = today + 1 THEN "Tomorrow:"
    ELSE "longdate"

\* collection.get_events_on(day): the events of the day
get_events_on(coll, day) ==
    SelectSeq(coll, LAMBDA ev : Overlaps(ev, datetime_fillin(day, FALSE),
                                         datetime_fillin(day, TRUE)))

\* get_agenda, lines 119-127: the wrapped lines of the events of a day
RECURSIVE DayLines(_, _, _)
DayLines(events, day, w) ==
    IF events = <<>> THEN <<>>
    ELSE LET event == Head(events)
             n == WrapCount(event.words, w)
         IN [k \in 1..n |-> Line("event", event.uid, k, day, "")]
            \o DayLines(Tail(events), day, w)

\* get_agenda, lines 111-127: the loop over the days
RECURSIVE AgendaFrom(_, _, _, _, _, _)
AgendaFrom(coll, dl, today, show_all_days, w, column) ==
    IF dl = <<>> THEN column
    ELSE LET day == Head(dl)
             events == sorted(get_events_on(coll, day))
         IN IF events = <<>> /\ ~show_all_days
            THEN AgendaFrom(coll, Tail(dl), today, show_all_days, w, column)
            ELSE AgendaFrom(coll, Tail(dl), today, show_all_days, w,
                     (IF column # <<>> THEN Append(column, Line("blank", 0, 0, 0, ""))
                                       ELSE column)
                     \o <<Line("header", 0, 0, day, DayName(day, today))>>
                     \o DayLines(events, day, w))

(***************************************************************************)
(* The state of one call of a pipeline.                                    *)
(***************************************************************************)
VARIABLES
    pipeline,      \* "list" (khal_list) or "agenda" (agenda)
    collection,    \* the events of the calendar collection
    once, notstarted, width,   \* the arguments of khal_list
    pc,            \* where the call is
    parsed,        \* what the date parsers gave get_list_from_str
    range,         \* the range as resolved, before the day loop moves start
    start, end,    \* the locals start and end of get_list_from_str
    event_column,  \* the lines collected so far
    calls,         \* the (start, end) of the get_list calls made so far
    merged,        \* the events the last get_list call iterated over
    shown,         \* the events formatted so far, with the call that did it
    queries,       \* the number of get_localized and of get_floating queries
    output,        \* the lines given to echo
    agenda_args,   \* the arguments of agenda: dates, days, week, firstweekday,
                   \* show_all_days
    dates, days,   \* the locals dates and days of get_agenda
    daylist,       \* the local daylist of get_agenda
    queried        \* the days asked of get_events_on so far

vars == <<pipeline, collection, once, notstarted, width, pc, parsed, range,
          start, end, event_column, calls, merged, shown, queries, output,
          agenda_args, dates, days, daylist, queried>>

\* the width given to get_list, in words; 0 is no width
Widths == {0, 1}

\* the days an anchor date of agenda can be
AnchorDays == 0..MaxDay

RECURSIVE SeqsUpTo(_, _)
SeqsUpTo(S, n) ==
    IF n = 0 THEN {<<>>}
    ELSE LET shorter == SeqsUpTo(S, n - 1) IN
         shorter \cup { Append(q, x) : q \in shorter, x \in S }

\* the arguments of agenda; firstweekday is only read with week, and with
\* week days is not given or is one day
AgendaArgs ==
    { a \in [dates : SeqsUpTo(AnchorDays, MaxAnchors), days : Option(0..MaxDay),
             week : BOOLEAN, firstweekday : 0..6, show_all_days : BOOLEAN] :
        /\ (~a.week => a.firstweekday = 0)
        /\ (a.week => a.days \in {<<>>, <<1>>}) }

NoArgs == [dates |-> <<>>, days |-> <<>>, week |-> FALSE, firstweekday |-> 0,
           show_all_days |-> FALSE]

\* get_agenda reads neither the zone of an event nor event.format
AgendaCollections ==
    { c \in Collections :
        \A i \in 1..Len(c) : ~c[i].zoned /\ ~c[i].keyerr /\ c[i].end = c[i].start + 1 }

NoRange == [start |-> 0, end |-> 0]
NotParsed == [tokens |-> FALSE, start |-> <<>>, end |-> <<>>, raised |-> FALSE]
NoEventsLine == Line("noevents", 0, 0, 0, "")

InitList ==
    /\ pipeline = "list"
    /\ collection \in Collections
    /\ once \in BOOLEAN
    /\ notstarted \in BOOLEAN
    /\ width \in Widths
    /\ pc = "resolve"
    /\ parsed = NotParsed
    /\ range = NoRange
    /\ start = 0
    /\ end = 0
    /\ event_column = <<>>
    /\ calls = <<>>
    /\ merged = <<>>
    /\ shown = <<>>
    /\ queries = [localized |-> 0, floating |-> 0]
    /\ output = <<>>
    /\ agenda_args = NoArgs
    /\ dates = <<>>
    /\ days = 0
    /\ daylist = <<>>
    /\ queried = <<>>

InitAgenda ==
    /\ pipeline = "agenda"
    /\ collection \in AgendaCollections
    /\ agenda_args \in AgendaArgs
    /\ once = FALSE
    /\ notstarted = FALSE
    /\ width = 1
    /\ pc = "resolve"
    /\ parsed = NotParsed
    /\ range = NoRange
    /\ start = 0
    /\ end = 0
    /\ event_column = <<>>
    /\ calls = <<>>
    /\ merged = <<>>
    /\ shown = <<>>
    /\ queries = [localized |-> 0, floating |-> 0]
    /\ output = <<>>
    /\ dates = <<>>
    /\ days = 0
    /\ daylist = <<>>
    /\ queried = <<>>

Init == InitList \/ InitAgenda

Today == 0..(MaxDay - 1)
RangeStarts == 0..(TicksPerDay - 1)
RangeEnds == 0..MaxTime

ListRest ==
    /\ UNCHANGED <<pipeline, collection, once, notstarted, width>>
    /\ UNCHANGED <<agenda_args, dates, days, daylist, queried>>

\* get_list_from_str, lines 208-217: no daterange given
ResolveDefault ==
    /\ pc = "resolve" /\ pipeline = "list"
    /\ \E today \in Today, default_timedelta \in Option(0..TicksPerDay),
          malformed \in BOOLEAN :
         LET s == datetime_fillin(today, FALSE) IN
         /\ parsed' = NotParsed
         /\ IF default_timedelta # <<>> /\ malformed
            THEN /\ pc' = "exit"
                 /\ UNCHANGED <<range, start, end>>
            ELSE /\ pc' = "resolved"
                 /\ start' = s
                 /\ end' = IF default_timedelta = <<>>
                           THEN datetime_fillin(Date(s), TRUE)
                           ELSE s + default_timedelta[1]
                 /\ range' = [start |-> start', end |-> end']
    /\ UNCHANGED <<event_column, calls, merged, shown, queries, output>>
    /\ ListRest

\* line 224 with a test of the order of start and end added
InvalidRange_Ordered(s, e) ==
    s = <<>> \/ e = <<>> \/ s[1] >= e[1]

\* get_list_from_str, line 224: start is None or end is None
InvalidRange(s, e) == s = <<>> \/ e = <<>>

\* get_list_from_str, lines 219-229: the daterange goes to aux.guessrangefstr
ResolveRange ==
    /\ pc = "resolve" /\ pipeline = "list"
    /\ \E s \in Option(RangeStarts), e \in Option(RangeEnds), raised \in BOOLEAN :
         /\ parsed' = [tokens |-> TRUE, start |-> IF raised THEN <<>> ELSE s,
                       end |-> IF raised THEN <<>> ELSE e, raised |-> raised]
         /\ IF raised \/ InvalidRange(s, e)
            THEN /\ pc' = "exit"
                 /\ UNCHANGED <<range, start, end>>
            ELSE /\ pc' = "resolved"
                 /\ start' = s[1]
                 /\ end' = e[1]
                 /\ range' = [start |-> s[1], end |-> e[1]]
    /\ UNCHANGED <<event_column, calls, merged, shown, queries, output>>
    /\ ListRest

\* one get_list call from get_list_from_str: what it leaves behind
CallGetList(s, e, r) ==
    /\ calls' = Append(calls, [start |-> s, end |-> e])
    /\ queries' = [localized |-> queries.localized + 1,
                   floating |-> queries.floating + 1]
    /\ merged' = r.events
    /\ shown' = shown \o [i \in 1..Len(r.shown) |->
                              [uid |-> r.shown[i], call |-> Len(calls) + 1]]

\* get_list_from_str, lines 236-238: the end of the sub-range of a day
DayEnd(s, e) ==
    IF Date(s) = Date(e) THEN e ELSE datetime_fillin(Date(s), TRUE)

\* line 241 without the return to the start of the day
NextStart_NoMidnight(s) == s + TicksPerDay

\* get_list_from_str, line 241: the start of the next sub-range
NextStart(s) == datetime_fillin(Date(s), FALSE) + TicksPerDay

\* get_list_from_str, lines 235-241: one turn of the day loop
DayStep ==
    /\ pc = "resolved" /\ pipeline = "list"
    /\ ~once
    /\ start < end
    /\ \E day_end \in {DayEnd(start, end)} :
       \E r \in {get_list(collection, start, day_end, notstarted, width)} :
          /\ CallGetList(start, day_end, r)
          /\ IF r.ok
             THEN /\ event_column' = event_column \o r.lines
                  /\ start' = NextStart(start)
                  /\ pc' = "resolved"
             ELSE /\ pc' = "exit"
                  /\ UNCHANGED <<event_column, start>>
    /\ UNCHANGED <<parsed, range, end, output>>
    /\ ListRest

\* lines 242-244 with the day loop run for once as well
OnceStep_PerDay ==
    /\ pc = "resolved" /\ pipeline = "list"
    /\ once
    /\ start < end
    /\ \E day_end \in {DayEnd(start, end)} :
       \E r \in {get_list(collection, start, day_end, notstarted, width)} :
          /\ CallGetList(start, day_end, r)
          /\ IF r.ok
             THEN /\ event_column' = event_column \o r.lines
                  /\ start' = NextStart(start)
                  /\ pc' = IF NextStart(start) < end THEN "resolved" ELSE "collected"
             ELSE /\ pc' = "exit"
                  /\ UNCHANGED <<event_column, start>>
    /\ UNCHANGED <<parsed, range, end, output>>
    /\ ListRest

\* get_list_from_str, lines 242-244: once, one get_list call for the range
OnceStep ==
    /\ pc = "resolved" /\ pipeline = "list"
    /\ once
    /\ \E r \in {get_list(collection, start, end, notstarted, width)} :
          /\ CallGetList(start, end, r)
          /\ IF r.ok
             THEN /\ event_column' = r.lines
                  /\ pc' = "collected"
             ELSE /\ pc' = "exit"
                  /\ UNCHANGED event_column
    /\ UNCHANGED <<parsed, range, start, end, output>>
    /\ ListRest

\* lines 245-246 and 129-130 left out
Placeholder_Forgotten(column) == column

\* get_list_from_str, lines 245-246, and get_agenda, lines 129-130
Placeholder(column) == IF column = <<>> THEN <<NoEventsLine>> ELSE column

\* get_list_from_str, lines 245-247, and khal_list, line 314
ListReturn ==
    /\ pipeline = "list"
    /\ \/ pc = "collected"
       \/ (pc = "resolved" /\ ~once /\ ~(start < end))
    /\ event_column' = Placeholder(event_column)
    /\ output' = event_column'
    /\ pc' = "done"
    /\ UNCHANGED <<parsed, range, start, end, calls, merged, shown, queries>>
    /\ ListRest

AgendaRest ==
    /\ UNCHANGED <<pipeline, collection, once, notstarted, width, agenda_args>>
    /\ UNCHANGED <<parsed, range, start, end, calls, merged, shown, queries>>

\* get_agenda, lines 83-109: the days of the agenda
AgendaResolve ==
    /\ pc = "resolve" /\ pipeline = "agenda"
    /\ \E today \in Today, invalid \in BOOLEAN :
         LET n == IF agenda_args.days = <<>> THEN DefaultDays ELSE agenda_args.days[1]
             ds == IF Len(agenda_args.dates) = 0 THEN <<today>> ELSE agenda_args.dates
         IN IF Len(agenda_args.dates) # 0 /\ invalid
            THEN /\ pc' = "exit"
                 /\ UNCHANGED <<dates, days, daylist>>
            ELSE /\ pc' = "resolved"
                 /\ dates' = IF agenda_args.week
                             THEN SnapDates(ds, agenda_args.firstweekday) ELSE ds
                 /\ days' = IF agenda_args.week THEN WeekDays ELSE n
                 /\ daylist' = DayList(dates', days')
    /\ UNCHANGED <<event_column, output, queried>>
    /\ AgendaRest

\* get_agenda, lines 111-131, and agenda, line 181
AgendaRender ==
    /\ pc = "resolved" /\ pipeline = "agenda"
    /\ \E today \in Today :
         event_column' = Placeholder(AgendaFrom(collection, daylist, today,
                                                agenda_args.show_all_days, width, <<>>))
    /\ queried' = daylist
    /\ output' = event_column'
    /\ pc' = "done"
    /\ UNCHANGED <<dates, days, daylist>>
    /\ AgendaRest

Next ==
    \/ ResolveDefault \/ ResolveRange \/ DayStep \/ OnceStep \/ ListReturn
    \/ AgendaResolve \/ AgendaRender

Spec == Init /\ [][Next]_vars

(***************************************************************************)
(* The properties.                                                         *)
(***************************************************************************)
ListRunning == pipeline = "list" /\ pc \in {"resolved", "collected", "done", "exit"}

LastCall == calls[Len(calls)]

\* the uids of the events that the k-th get_list call formatted, in order
ShownIn(k) ==
    LET mine == SelectSeq(shown, LAMBDA x : x.call = k)
    IN [i \in 1..Len(mine) |-> mine[i].uid]

UidSeq(events) == [i \in 1..Len(events) |-> events[i].uid]

Occurrences(q, x) == Cardinality({ i \in 1..Len(q) : q[i] = x })

MidnightAt(t) == t % TicksPerDay = 0

\* C1: without once and with start < end, the sub-ranges given to the
\* successive get_list calls start at the start of the range, each later one
\* starts at a local midnight, exactly where the one before it ended, none is
\* empty, and when the loop is over the last one ends at the end of the range.
C1_Partition ==
    (ListRunning /\ ~once /\ range.start < range.end) =>
        /\ \A i \in 1..Len(calls) :
              /\ calls[i].start < calls[i].end
              /\ calls[i].end <= range.end
              /\ IF i = 1 THEN calls[i].start = range.start
                 ELSE /\ calls[i].start = calls[i - 1].end
                      /\ MidnightAt(calls[i].start)
        /\ (pc = "done" => Len(calls) > 0 /\ LastCall.end = range.end)
        /\ (pc = "resolved" /\ ~(start < end) => Len(calls) > 0 /\ LastCall.end = range.end)

C1_Witness ==
    /\ pipeline = "list" /\ pc = "done" /\ ~once
    /\ Len(calls) = 2
    /\ ~MidnightAt(range.start) /\ ~MidnightAt(range.end)
    /\ calls[2].start = calls[1].end

\* C2: the events a get_list call iterates over are the events of both
\* queries, each once, in the canonical order whatever query gave them, and
\* are what one sort of the concatenation gives.
C2_Merge ==
    (ListRunning /\ Len(calls) > 0) =>
        LET both == get_localized(collection, LastCall.start, LastCall.end)
                    \o get_floating(collection, LastCall.start, LastCall.end)
        IN /\ Len(merged) = Len(both)
           /\ \A i \in 1..Len(both) : Occurrences(merged, both[i]) = 1
           /\ \A i, j \in 1..Len(merged) : i < j => Less(merged[i], merged[j])
           /\ merged = sorted(both)

C2_Witness ==
    /\ pipeline = "list" /\ Len(calls) > 0 /\ Len(merged) = 2
    /\ ~merged[1].zoned /\ merged[2].zoned
    /\ merged[1].start < merged[2].start
    /\ Date(merged[1].start) = Date(merged[2].start)

\* C3: with notstarted a get_list call formats exactly the merged events
\* whose zone-naive start is not before the zone-naive start of its range,
\* in the merged order; without notstarted it formats every merged event.
C3_NotStarted ==
    (ListRunning /\ pc # "exit" /\ Len(calls) > 0) =>
        ShownIn(Len(calls)) =
            UidSeq(IF notstarted
                   THEN SelectSeq(merged, LAMBDA ev : EventStart(ev) >= LastCall.start)
                   ELSE merged)

C3_Witness ==
    /\ pipeline = "list" /\ pc = "done" /\ notstarted /\ Len(calls) = 1
    /\ Len(merged) = 2
    /\ EventStart(merged[1]) < LastCall.start
    /\ EventStart(merged[2]) = LastCall.start
    /\ ShownIn(1) = <<merged[2].uid>>

FirstLines(uid) ==
    Cardinality({ i \in 1..Len(event_column) :
                    /\ event_column[i].kind = "event"
                    /\ event_column[i].uid = uid
                    /\ event_column[i].part = 1 })

\* C5: with once there is one get_list call, so one get_localized and one
\* get_floating query, for the whole range, and every event that the merge
\* of that call gives (an event of the collection that overlaps the range
\* and that notstarted does not leave out) is in the result exactly once,
\* every other event not at all.
C5_Once ==
    (pipeline = "list" /\ once) =>
        /\ Len(calls) <= 1
        /\ queries.localized = Len(calls) /\ queries.floating = Len(calls)
        /\ (pc \in {"collected", "done"} =>
              /\ calls = <<range>>
              /\ \A i \in 1..Len(collection) :
                    LET e == collection[i]
                        n == IF /\ Overlaps(e, range.start, range.end)
                                /\ ~(notstarted /\ EventStart(e) < range.start)
                             THEN 1 ELSE 0
                    IN /\ Occurrences(UidSeq(shown), e.uid) = n
                       /\ FirstLines(e.uid) = n)

C5_Witness ==
    /\ pipeline = "list" /\ once /\ pc = "done"
    /\ Date(range.start) < Date(range.end - 1)
    /\ \E i \in 1..Len(collection) :
          /\ Date(collection[i].start) < Date(collection[i].end - 1)
          /\ Date(collection[i].start) = Date(range.start)
          /\ Date(collection[i].end - 1) = Date(range.end - 1)
          /\ Occurrences(UidSeq(shown), collection[i].uid) = 1
          /\ FirstLines(collection[i].uid) = 1

\* has the pipeline produced a header or an event line
Produced ==
    IF pipeline = "list" THEN shown # <<>>
    ELSE \E i \in 1..Len(daylist) :
            \/ agenda_args.show_all_days
            \/ get_events_on(collection, daylist[i]) # <<>>

\* C6: neither pipeline returns an empty result: the result is the one line
\* "No events" exactly when no header and no event line was produced, and has
\* no such line otherwise.
C6_Placeholder ==
    pc = "done" =>
        /\ event_column # <<>>
        /\ output = event_column
        /\ (event_column = <<NoEventsLine>> <=> ~Produced)
        /\ (Produced => \A i \in 1..Len(event_column) : event_column[i] # NoEventsLine)

C6_Witness ==
    /\ pipeline = "agenda" /\ pc = "done"
    /\ Len(daylist) > 1
    /\ collection # <<>>
    /\ ~agenda_args.show_all_days
    /\ output = <<NoEventsLine>>

\* the events that the k-th get_list call had to format
KeptIn(k) ==
    SelectSeq(MergedEvents(collection, calls[k].start, calls[k].end),
              LAMBDA ev : ~(notstarted /\ EventStart(ev) < calls[k].start))

FirstFailed(q) ==
    IF \E i \in 1..Len(q) : q[i].keyerr
    THEN CHOOSE i \in 1..Len(q) : q[i].keyerr /\ \A j \in 1..(i - 1) : ~q[j].keyerr
    ELSE 0

\* C7: when event.format raises KeyError for an event of some get_list call,
\* the range pipeline ends at that event: nothing is given to echo, the
\* events before it in that call are the only ones the call formatted, and
\* that call is the last one, with no query after it.
C7_Abort ==
    pipeline = "list" =>
        /\ (pc = "exit" => output = <<>>)
        /\ queries.localized = Len(calls) /\ queries.floating = Len(calls)
        /\ \A k \in 1..Len(calls) :
              LET kept == KeptIn(k)
                  bad == FirstFailed(kept)
              IN bad # 0 =>
                    /\ k = Len(calls)
                    /\ pc = "exit"
                    /\ ShownIn(k) = UidSeq(SubSeq(kept, 1, bad - 1))

C7_Witness ==
    /\ pipeline = "list" /\ pc = "exit"
    /\ Len(calls) = 2
    /\ event_column # <<>>
    /\ FirstFailed(KeptIn(2)) = 2
    /\ Len(KeptIn(2)) = 2
    /\ output = <<>>

AgendaResolved == pipeline = "agenda" /\ pc \in {"resolved", "done"}

Snapped(d, first) ==
    /\ first <= d
    /\ d - first <= 6
    /\ Weekday(first) = agenda_args.firstweekday

\* C8: with week every anchor is replaced by the latest day not after it
\* whose weekday is firstweekday, and seven days are taken from it whatever
\* days was given.
C8_Week ==
    (AgendaResolved /\ agenda_args.week) =>
        /\ days = 7
        /\ IF Len(agenda_args.dates) = 0
           THEN Len(dates) = 1 /\ \E today \in Today : Snapped(today, dates[1])
           ELSE /\ Len(dates) = Len(agenda_args.dates)
                /\ \A i \in 1..Len(dates) : Snapped(agenda_args.dates[i], dates[i])
        /\ Len(daylist) = 7 * Len(dates)
        /\ \A i \in 1..Len(dates) : \A k \in 0..6 :
              \E j \in 1..Len(daylist) : daylist[j] = dates[i] + k

\* firstweekday 0 and the anchor Wednesday 2024-06-12, day 2 when day 0 is
\* Monday 2024-06-10
C8_Witness ==
    /\ pipeline = "agenda" /\ pc = "done"
    /\ agenda_args.week /\ agenda_args.firstweekday = 0
    /\ agenda_args.dates = <<2>>
    /\ agenda_args.days = <<1>>
    /\ daylist = <<0, 1, 2, 3, 4, 5, 6>>

HeaderDays ==
    LET hs == SelectSeq(event_column, LAMBDA l : l.kind = "header")
    IN [i \in 1..Len(hs) |-> hs[i].day]

\* C9: the day list has days entries for each anchor, the days from that
\* anchor on, in ascending order with the repeats kept; every entry is
\* queried, and the result has one header for every entry with events (for
\* every entry with show_all_days), in the order of the day list, with a
\* blank line before every header but the first.
C9_DayList ==
    AgendaResolved =>
        /\ Len(daylist) = days * Len(dates)
        /\ \A i \in 1..(Len(daylist) - 1) : daylist[i] <= daylist[i + 1]
        /\ \A i \in 1..Len(dates) : \A k \in 0..(days - 1) :
              Occurrences(daylist, dates[i] + k) =
                  Cardinality({ j \in 1..Len(dates) :
                                  dates[j] <= dates[i] + k /\ dates[i] + k < dates[j] + days })
        /\ (pc = "done" =>
              /\ queried = daylist
              /\ HeaderDays =
                    SelectSeq(daylist, LAMBDA d : \/ agenda_args.show_all_days
                                                 \/ get_events_on(collection, d) # <<>>)
              /\ \A i \in 1..Len(event_column) :
                    /\ event_column[i].kind = "header" =>
                          (i = 1 \/ event_column[i - 1].kind = "blank")
                    /\ event_column[i].kind = "blank" =>
                          /\ i > 1 /\ i < Len(event_column)
                          /\ event_column[i + 1].kind = "header"
                    /\ (i = 1 /\ Produced) => event_column[i].kind = "header")

C9_Witness ==
    /\ pipeline = "agenda" /\ pc = "done"
    /\ ~agenda_args.week /\ ~agenda_args.show_all_days
    /\ Len(dates) = 2 /\ dates[1] # dates[2]
    /\ \E i \in 1..(Len(daylist) - 1) :
          /\ daylist[i] = daylist[i + 1]
          /\ get_events_on(collection, daylist[i]) # <<>>
    /\ \E i, j \in 1..Len(HeaderDays) : i # j /\ HeaderDays[i] = HeaderDays[j]

\* C10: without once and with notstarted no event is formatted by more
\* than one get_list call, so no event is in the result twice.
C10_NoRepeat ==
    (pipeline = "list" /\ ~once /\ notstarted) =>
        \A i, j \in 1..Len(shown) : i # j => shown[i].uid # shown[j].uid

====
